---- MODULE Spec2Model ----
(***************************************************************************)
(* A model of kiwi/proxies.py: the Proxy that keeps the widgets of a view  *)
(* synchronized with the attributes of a model object.                     *)
(*                                                                         *)
(* Every public operation (the constructor, update, new_model) and the     *)
(* content-changed callback runs synchronously to completion, so each is   *)
(* one action.  The body of an operation is a chain of operators over a    *)
(* record s holding the whole program state, the events logged so far and  *)
(* the exception in flight (s.exc).                                        *)
(***************************************************************************)
EXTENDS Integers, Sequences, FiniteSets, TLC

(* ------------------------------ bounds -------------------------------- *)

\* Longest widget-name list handed to the constructor.
MaxWidgets == 3
\* Deepest nesting of content-changed handlers before the interpreter gives up.
MaxDepth == 2
\* Handler blocks that failing calls of widget.update may leave behind.
MaxBlock == 1

(* ------------------------------ values -------------------------------- *)

ValueUnset == "Unset"
None == "None"
\* What a widget holds when an operation starts: the proxy never reads it,
\* it reads a widget only right after the widget's content has changed.
Prior == "Prior"

IntValues == {"i1", "i2"}
StrValues == {"s1", "s2"}

TypeOf(v) ==
    IF v \in IntValues THEN "int"
    ELSE IF v \in StrValues THEN "str"
    ELSE IF v = None THEN "NoneType"
    ELSE "UnsetType"

\* isinstance(value, data_type)
IsInstance(v, dataType) == TypeOf(v) = dataType

(* -------------------------- the view's widgets ------------------------ *)

\* Names a caller may put in the widget list.  "missing" is not an attribute
\* of the view; "label" is a plain toolkit widget, not a kiwi widget.
Names == {"wa", "wb", "wa2", "label", "notype", "noattr", "missing"}
NoWidget == "NoWidget"

\* getattr(self._view, widget_name, None)
ViewGetattr(name) == IF name = "missing" THEN NoWidget ELSE name

\* isinstance(widget, Mixin)
IsMixin(w) == w \in {"wa", "wb", "wa2", "notype", "noattr"}

\* isinstance(widget, MixinSupportValidation)
SupportsValidation(w) == w = "wb"

\* widget.get_property('data-type'); "NoType" stands for None
DataType(w) ==
    IF w \in {"wa", "wa2", "noattr"} THEN "int"
    ELSE IF w = "wb" THEN "str"
    ELSE "NoType"

\* widget.get_property('model-attribute'); "" is the unset property
ModelAttribute(w) ==
    IF w \in {"wa", "wa2"} THEN "a"
    ELSE IF w \in {"wb", "notype"} THEN "b"
    ELSE ""

\* Attribute names a widget can be bound to.
Attrs == {"a", "b"}

\* The widgets that can end up connected: their content and block counts
\* are tracked.
Tracked == {"wa", "wb", "wa2"}

(* ------------------------------ the models ---------------------------- *)

\* m1 is an instance of Derived, a subclass of Base that implements the
\* proxy protocol (register/unregister/block/unblock); m2 is a plain Base.
Models == {"m1", "m2"}

ClassOf(m) ==
    IF m = "m1" THEN "Derived" ELSE IF m = "m2" THEN "Base" ELSE "NoneType"

\* isinstance(m, cls)
IsInstanceOfClass(m, cls) ==
    \/ ClassOf(m) = cls
    \/ ClassOf(m) = "Derived" /\ cls = "Base"

\* hasattr(model, "block_proxy") and the other protocol methods
HasProtocol(m) == m = "m1"

\* Attribute values the models start with; ValueUnset is a missing attribute.
InitialAttrs ==
    [m \in Models |->
        IF m = "m1" THEN [a |-> "i1", b |-> "s1"]
        ELSE [a |-> "i2", b |-> ValueUnset]]

(* ------------------------------- state -------------------------------- *)

VARIABLES
    phase,            \* "fresh", "ready" (constructed) or "failed"
    model,            \* self.model: a model or None
    modelAttributes,  \* self._model_attributes: attribute -> widget
    connected,        \* widgets carrying the proxy's content-changed handler
    hblock,           \* block count of that handler, per widget
    vblock,           \* block count of the view's handlers, per widget
    mattr,            \* the attributes of each model
    registered,       \* per model: attributes the proxy is registered for
    blocked,          \* per model: whether the proxy is blocked in it
    last              \* the last operation, its arguments and its outcome

vars == <<phase, model, modelAttributes, connected, hblock, vblock,
          mattr, registered, blocked, last>>

Ev(e, t, v) == [ev |-> e, tgt |-> t, val |-> v]

\* The record an operation works on: the program state, what each widget
\* holds (content), the events so far, the exception in flight, the handler
\* nesting depth, and what the environment does during this operation
\* (fault: which external call raises; hook: what an overriding proxy_updated
\* does).
Cur(env) ==
    [model |-> model, attrs |-> modelAttributes, conn |-> connected,
     hblock |-> hblock, vblock |-> vblock,
     content |-> [w \in Tracked |-> Prior],
     mattr |-> mattr, reg |-> registered, mblk |-> blocked,
     log |-> <<>>, exc |-> "none", hexc |-> "none", depth |-> 0,
     fault |-> env.fault, hook |-> env.hook]

Note(s, e, t, v) == [s EXCEPT !.log = Append(@, Ev(e, t, v))]

Ok(s) == s.exc = "none"

Raise(s, kind) == [Note(s, "raise", kind, "-") EXCEPT !.exc = kind]

RECURSIVE update(_, _, _, _)
RECURSIVE widget_update(_, _, _)
RECURSIVE content_changed(_, _)
RECURSIVE on_widget__content_changed(_, _, _)
RECURSIVE ksetattr(_, _, _)
RECURSIVE proxy_updated(_, _, _)
RECURSIVE initialize_widgets(_, _)
RECURSIVE setup_widgets(_, _)

(* ---------------------- module-level helpers -------------------------- *)

\* widget.get_data('content-changed-id'): set once the handler is connected
HasConnectionId(s, w) == w \in s.conn

\* block_widget that blocks nothing
block_widget_skipped(s, w) == s

block_widget(s, w) ==
    IF HasConnectionId(s, w)
    THEN [Note(s, "handler_block", w, "-") EXCEPT !.hblock[w] = @ + 1]
    ELSE s

unblock_widget(s, w) ==
    IF HasConnectionId(s, w)
    THEN [Note(s, "handler_unblock", w, "-") EXCEPT
              !.hblock[w] = IF @ > 0 THEN @ - 1 ELSE 0]
    ELSE s

\* self._view.handler_block(widget) and handler_unblock(widget)
view_handler_block(s, w) ==
    [Note(s, "view.handler_block", w, "-") EXCEPT !.vblock[w] = @ + 1]

view_handler_unblock(s, w) ==
    [Note(s, "view.handler_unblock", w, "-") EXCEPT
         !.vblock[w] = IF @ > 0 THEN @ - 1 ELSE 0]

(* ----------------------- accessors and the model ---------------------- *)

\* kgetattr(self.model, attribute, ValueUnset): the value
kgetattr(s, attribute) ==
    IF attribute \in Attrs THEN s.mattr[s.model][attribute] ELSE ValueUnset

\* kgetattr as a step of an operation
kgetattr_step(s, attribute) == Note(s, "kgetattr", attribute, kgetattr(s, attribute))

\* clear_attr_cache(): the cache itself lives in kiwi.accessors; what is
\* followed here is when it is emptied
clear_attr_cache(s) == Note(s, "clear_attr_cache", "-", "-")

\* ksetattr(self.model, attribute, value).  A model with the proxy protocol
\* echoes the write to every registered proxy it has not blocked, by calling
\* the proxy's update(attribute, block=True).
ksetattr(s, attribute, value) ==
    IF s.fault = "ksetattr"
    THEN Raise(Note(s, "ksetattr", attribute, value), "SetterError")
    ELSE LET m == s.model
             s1 == [Note(s, "ksetattr", attribute, value) EXCEPT
                        !.mattr[m][attribute] = value]
         IN IF HasProtocol(m) /\ attribute \in s.reg[m] /\ ~s.mblk[m]
            THEN update(Note(s1, "echo", attribute, value), attribute, ValueUnset, TRUE)
            ELSE s1

(* ------------------------------ widgets ------------------------------- *)

\* widget.read(): the content, when it is a value of the widget's data type
widget_read(s, w) ==
    IF IsInstance(s.content[w], DataType(w)) THEN s.content[w] ELSE ValueUnset

\* The validator of the validating widget rejects "s2".
IsValid(w, v) == v # "s2"

\* widget.validate(): the value read, or ValueUnset when it is not valid
widget_validate(s, w) ==
    IF IsValid(w, widget_read(s, w)) THEN widget_read(s, w) ELSE ValueUnset

\* Emission of content-changed on w: the proxy's handler runs when it is
\* connected and not blocked.  The toolkit reports an exception of a handler
\* and goes on: it does not reach the code that caused the emission.
content_changed(s, w) ==
    IF w \in s.conn /\ s.hblock[w] = 0
    THEN LET r == IF s.depth >= MaxDepth
                  THEN Raise(s, "RecursionError")
                  ELSE on_widget__content_changed(
                           [s EXCEPT !.depth = @ + 1], w, ModelAttribute(w))
         IN [r EXCEPT !.depth = s.depth, !.exc = "none", !.hexc = r.exc]
    ELSE Note(s, "not_delivered", w, "-")

\* widget.update(value): shows the value and emits content-changed
widget_update(s, w, v) ==
    IF s.fault = "widget.update"
    THEN Raise(Note(s, "widget.update", w, v), "WidgetError")
    ELSE content_changed(
             [Note(s, "widget.update", w, v) EXCEPT !.content[w] = v], w)

(* ------------------------------ the Proxy ----------------------------- *)

\* Proxy._block_proxy_in_model(state)
block_proxy_in_model(s, state) ==
    IF ~HasProtocol(s.model) THEN s
    ELSE IF state
    THEN [Note(s, "block_proxy", s.model, "-") EXCEPT !.mblk[s.model] = TRUE]
    ELSE [Note(s, "unblock_proxy", s.model, "-") EXCEPT !.mblk[s.model] = FALSE]

\* Proxy._register_proxy_in_model(attribute): an AttributeError of the
\* model's register_proxy_for_attribute comes out as a TypeError
register_proxy_in_model(s, attribute) ==
    IF ~HasProtocol(s.model) THEN s
    ELSE IF s.fault = "register"
    THEN Raise(Note(s, "register", attribute, s.model), "TypeError")
    ELSE [Note(s, "register", attribute, s.model) EXCEPT
              !.reg[s.model] = @ \cup {attribute}]

\* Proxy._unregister_proxy_in_model()
unregister_proxy_in_model(s) ==
    IF s.model # None /\ HasProtocol(s.model)
    THEN [Note(s, "unregister", s.model, "-") EXCEPT !.reg[s.model] = {}]
    ELSE s

\* Proxy.proxy_updated(widgetproxy, value): does nothing, unless a subclass
\* overrides it; the override modelled here refreshes the widget it was
\* called for with update(attribute, value, block=True).
proxy_updated(s, w, value) ==
    LET s1 == Note(s, "proxy_updated", w, value)
    IN IF s.hook = "reupdate"
       THEN update(s1, ModelAttribute(w), value, TRUE)
       ELSE s1

\* _on_widget__content_changed without the test for an unset value
on_widget__content_changed_any(s, w, attribute) ==
    LET s0 == Note(s, "handler", w, attribute)
    IN IF s0.model = None THEN s0
       ELSE
         LET value == IF SupportsValidation(w)
                      THEN widget_validate(s0, w)
                      ELSE widget_read(s0, w)
             s2 == block_proxy_in_model(Note(s0, "read", w, value), TRUE)
             s3 == ksetattr(s2, attribute, value)
             s4 == IF Ok(s3) THEN block_proxy_in_model(s3, FALSE) ELSE s3
         IN IF Ok(s4) THEN proxy_updated(s4, w, value) ELSE s4

\* _on_widget__content_changed calling the hook also when there is no model
on_widget__content_changed_hooking(s, w, attribute) ==
    LET s0 == Note(s, "handler", w, attribute)
    IN IF s0.model = None THEN proxy_updated(s0, w, ValueUnset)
       ELSE
         LET value == IF SupportsValidation(w)
                      THEN widget_validate(s0, w)
                      ELSE widget_read(s0, w)
             s1 == Note(s0, "read", w, value)
         IN IF value = ValueUnset THEN s1
            ELSE
              LET s2 == block_proxy_in_model(s1, TRUE)
                  s3 == ksetattr(s2, attribute, value)
                  s4 == IF Ok(s3) THEN block_proxy_in_model(s3, FALSE) ELSE s3
              IN IF Ok(s4) THEN proxy_updated(s4, w, value) ELSE s4

\* _on_widget__content_changed treating an unset value as an error
on_widget__content_changed_strict(s, w, attribute) ==
    LET s0 == Note(s, "handler", w, attribute)
    IN IF s0.model = None THEN s0
       ELSE
         LET value == IF SupportsValidation(w)
                      THEN widget_validate(s0, w)
                      ELSE widget_read(s0, w)
             s1 == Note(s0, "read", w, value)
         IN IF value = ValueUnset THEN Raise(s1, "ValueError")
            ELSE
              LET s2 == block_proxy_in_model(s1, TRUE)
                  s3 == ksetattr(s2, attribute, value)
                  s4 == IF Ok(s3) THEN block_proxy_in_model(s3, FALSE) ELSE s3
              IN IF Ok(s4) THEN proxy_updated(s4, w, value) ELSE s4

\* Proxy._on_widget__content_changed(widget, attribute)
on_widget__content_changed(s, w, attribute) ==
    LET s0 == Note(s, "handler", w, attribute)
    IN IF s0.model = None THEN s0
       ELSE
         LET value == IF SupportsValidation(w)
                      THEN widget_validate(s0, w)
                      ELSE widget_read(s0, w)
             s1 == Note(s0, "read", w, value)
         IN IF value = ValueUnset THEN s1
            ELSE
              LET s2 == block_proxy_in_model(s1, TRUE)
                  s3 == ksetattr(s2, attribute, value)
                  s4 == IF Ok(s3) THEN block_proxy_in_model(s3, FALSE) ELSE s3
              IN IF Ok(s4) THEN proxy_updated(s4, w, value) ELSE s4

\* update without the comparison of the value with the data type
update_unchecked(s, attribute, value, block) ==
    IF value = ValueUnset /\ s.model = None
    THEN Note(s, "update.return", attribute, "-")
    ELSE
      LET s1 == IF value = ValueUnset THEN kgetattr_step(s, attribute) ELSE s
          v == IF value = ValueUnset THEN kgetattr(s, attribute) ELSE value
          widget == IF attribute \in Attrs THEN s.attrs[attribute] ELSE NoWidget
      IN IF widget = NoWidget THEN Raise(s1, "AttributeError")
         ELSE IF block
         THEN LET s2 == view_handler_block(block_widget(s1, widget), widget)
                  s3 == widget_update(s2, widget, v)
              IN IF Ok(s3)
                 THEN unblock_widget(view_handler_unblock(s3, widget), widget)
                 ELSE s3
         ELSE widget_update(s1, widget, v)

\* update that goes on without a model: the unset value reaches the widget
update_without_model(s, attribute, value, block) ==
    LET s1 == IF value = ValueUnset /\ s.model # None
              THEN kgetattr_step(s, attribute) ELSE s
        v == IF value = ValueUnset /\ s.model # None
             THEN kgetattr(s, attribute) ELSE value
        widget == IF attribute \in Attrs THEN s.attrs[attribute] ELSE NoWidget
    IN IF widget = NoWidget THEN Raise(s1, "AttributeError")
       ELSE IF ~(v = ValueUnset \/ v = None) /\ ~IsInstance(v, DataType(widget))
       THEN Raise(s1, "TypeError")
       ELSE IF block
       THEN LET s2 == view_handler_block(block_widget(s1, widget), widget)
                s3 == widget_update(s2, widget, v)
            IN IF Ok(s3)
               THEN unblock_widget(view_handler_unblock(s3, widget), widget)
               ELSE s3
       ELSE widget_update(s1, widget, v)

\* update that passes over an attribute no widget is bound to
update_lenient(s, attribute, value, block) ==
    IF value = ValueUnset /\ s.model = None
    THEN Note(s, "update.return", attribute, "-")
    ELSE
      LET s1 == IF value = ValueUnset THEN kgetattr_step(s, attribute) ELSE s
          v == IF value = ValueUnset THEN kgetattr(s, attribute) ELSE value
          widget == IF attribute \in Attrs THEN s.attrs[attribute] ELSE NoWidget
      IN IF widget = NoWidget THEN s1
         ELSE IF ~(v = ValueUnset \/ v = None) /\ ~IsInstance(v, DataType(widget))
         THEN Raise(s1, "TypeError")
         ELSE IF block
         THEN LET s2 == view_handler_block(block_widget(s1, widget), widget)
                  s3 == widget_update(s2, widget, v)
              IN IF Ok(s3)
                 THEN unblock_widget(view_handler_unblock(s3, widget), widget)
                 ELSE s3
         ELSE widget_update(s1, widget, v)

\* update that exempts only the unset value from the type check
update_strict(s, attribute, value, block) ==
    IF value = ValueUnset /\ s.model = None
    THEN Note(s, "update.return", attribute, "-")
    ELSE
      LET s1 == IF value = ValueUnset THEN kgetattr_step(s, attribute) ELSE s
          v == IF value = ValueUnset THEN kgetattr(s, attribute) ELSE value
          widget == IF attribute \in Attrs THEN s.attrs[attribute] ELSE NoWidget
      IN IF widget = NoWidget THEN Raise(s1, "AttributeError")
         ELSE IF v # ValueUnset /\ ~IsInstance(v, DataType(widget))
         THEN Raise(s1, "TypeError")
         ELSE IF block
         THEN LET s2 == view_handler_block(block_widget(s1, widget), widget)
                  s3 == widget_update(s2, widget, v)
              IN IF Ok(s3)
                 THEN unblock_widget(view_handler_unblock(s3, widget), widget)
                 ELSE s3
         ELSE widget_update(s1, widget, v)

\* Proxy.update(attribute, value=ValueUnset, block=False)
update(s, attribute, value, block) ==
    IF value = ValueUnset /\ s.model = None
    THEN Note(s, "update.return", attribute, "-")
    ELSE
      LET s1 == IF value = ValueUnset THEN kgetattr_step(s, attribute) ELSE s
          v == IF value = ValueUnset THEN kgetattr(s, attribute) ELSE value
          widget == IF attribute \in Attrs THEN s.attrs[attribute] ELSE NoWidget
      IN IF widget = NoWidget THEN Raise(s1, "AttributeError")
         ELSE IF ~(v = ValueUnset \/ v = None) /\ ~IsInstance(v, DataType(widget))
         THEN Raise(s1, "TypeError")
         ELSE IF block
         THEN LET s2 == view_handler_block(block_widget(s1, widget), widget)
                  s3 == widget_update(s2, widget, v)
              IN IF Ok(s3)
                 THEN unblock_widget(view_handler_unblock(s3, widget), widget)
                 ELSE s3
         ELSE widget_update(s1, widget, v)

\* A round of the loop that pushes the value without block=True
initialize_widget_unblocked(s, attribute) ==
    LET widget == s.attrs[attribute]
        s1 == IF s.model = None THEN s ELSE register_proxy_in_model(s, attribute)
        value == IF s.model = None THEN ValueUnset ELSE kgetattr(s, attribute)
        s2 == IF s.model = None \/ ~Ok(s1) THEN s1
              ELSE kgetattr_step(s1, attribute)
        s3 == IF Ok(s2) THEN update(s2, attribute, value, FALSE) ELSE s2
    IN IF Ok(s3) /\ SupportsValidation(widget)
       THEN Note(s3, "validate.force", widget, "-")
       ELSE s3

\* One round of the loop of Proxy._initialize_widgets
initialize_widget(s, attribute) ==
    LET widget == s.attrs[attribute]
        s1 == IF s.model = None THEN s ELSE register_proxy_in_model(s, attribute)
        value == IF s.model = None THEN ValueUnset ELSE kgetattr(s, attribute)
        s2 == IF s.model = None \/ ~Ok(s1) THEN s1
              ELSE kgetattr_step(s1, attribute)
        s3 == IF Ok(s2) THEN update(s2, attribute, value, TRUE) ELSE s2
    IN IF Ok(s3) /\ SupportsValidation(widget)
       THEN Note(s3, "validate.force", widget, "-")
       ELSE s3

\* Proxy._initialize_widgets(): order is the order in which the dictionary
\* self._model_attributes hands out its items
initialize_widgets(s, order) ==
    IF order = <<>> \/ ~Ok(s) THEN s
    ELSE initialize_widgets(initialize_widget(s, Head(order)), Tail(order))

\* _setup_widget that lets a second widget take over an attribute
setup_widget_rebinding(s, name, widget) ==
    IF ~IsMixin(widget)
    THEN Raise(Note(s, "reject", name, "not a kiwi widget"), "ProxyError")
    ELSE IF DataType(widget) = "NoType"
    THEN Raise(Note(s, "reject", name, "no data type"), "ProxyError")
    ELSE IF ModelAttribute(widget) = ""
    THEN Raise(Note(s, "reject", name, "no model attribute"), "ProxyError")
    ELSE
      LET attribute == ModelAttribute(widget)
          s1 == [Note(s, "connect", widget, attribute) EXCEPT
                     !.conn = @ \cup {widget}]
      IN [Note(s1, "bind", attribute, widget) EXCEPT !.attrs[attribute] = widget]

\* _setup_widget that reports a duplicate binding as a ProxyError
setup_widget_uniform(s, name, widget) ==
    IF ~IsMixin(widget)
    THEN Raise(Note(s, "reject", name, "not a kiwi widget"), "ProxyError")
    ELSE IF DataType(widget) = "NoType"
    THEN Raise(Note(s, "reject", name, "no data type"), "ProxyError")
    ELSE IF ModelAttribute(widget) = ""
    THEN Raise(Note(s, "reject", name, "no model attribute"), "ProxyError")
    ELSE
      LET attribute == ModelAttribute(widget)
          s1 == [Note(s, "connect", widget, attribute) EXCEPT
                     !.conn = @ \cup {widget}]
      IN IF s1.attrs[attribute] # NoWidget
         THEN Raise(Note(s1, "reject", name, "duplicate"), "ProxyError")
         ELSE [Note(s1, "bind", attribute, widget) EXCEPT
                   !.attrs[attribute] = widget]

\* Proxy._setup_widget(widget_name, widget)
setup_widget(s, name, widget) ==
    IF ~IsMixin(widget)
    THEN Raise(Note(s, "reject", name, "not a kiwi widget"), "ProxyError")
    ELSE IF DataType(widget) = "NoType"
    THEN Raise(Note(s, "reject", name, "no data type"), "ProxyError")
    ELSE IF ModelAttribute(widget) = ""
    THEN Raise(Note(s, "reject", name, "no model attribute"), "ProxyError")
    ELSE
      LET attribute == ModelAttribute(widget)
          s1 == [Note(s, "connect", widget, attribute) EXCEPT
                     !.conn = @ \cup {widget}]
      IN IF s1.attrs[attribute] # NoWidget
         THEN Raise(Note(s1, "reject", name, "duplicate"), "KeyError")
         ELSE [Note(s1, "bind", attribute, widget) EXCEPT
                   !.attrs[attribute] = widget]

\* The loop of Proxy.__init__ going on after a name the view does not have
RECURSIVE setup_widgets_tolerant(_, _)
setup_widgets_tolerant(s, names) ==
    IF names = <<>> \/ ~Ok(s) THEN s
    ELSE LET widget == ViewGetattr(Head(names))
         IN IF widget = NoWidget
            THEN setup_widgets_tolerant(
                     Note(s, "reject", Head(names), "not in view"), Tail(names))
            ELSE setup_widgets_tolerant(
                     setup_widget(s, Head(names), widget), Tail(names))

\* The loop of Proxy.__init__ over the widget names
setup_widgets(s, names) ==
    IF names = <<>> \/ ~Ok(s) THEN s
    ELSE LET widget == ViewGetattr(Head(names))
         IN IF widget = NoWidget
            THEN Raise(Note(s, "reject", Head(names), "not in view"),
                       "AttributeError")
            ELSE setup_widgets(setup_widget(s, Head(names), widget), Tail(names))

\* The attributes bound in s, in every order a dictionary may list them.
BoundAttrs(s) == {a \in Attrs : s.attrs[a] # NoWidget}

\* The orders in which a dictionary may list the attribute names.
Orders ==
    {o \in [1..Cardinality(Attrs) -> Attrs] :
        \A i, j \in 1..Len(o) : i # j => o[i] # o[j]}

\* self._model_attributes.items(), when the dictionary lists its keys in
\* the order they have in perm
Items(s, perm) == SelectSeq(perm, LAMBDA a : a \in BoundAttrs(s))

\* Proxy.__init__(view, model, widgets)
proxy_init(s, m, names, perm) ==
    LET s1 == setup_widgets(
                  [s EXCEPT !.model = m, !.attrs = [a \in Attrs |-> NoWidget]],
                  names)
    IN IF Ok(s1)
       THEN initialize_widgets(Note(s1, "initialize", "-", "-"), Items(s1, perm))
       ELSE s1

\* new_model that drops the bindings when the proxy is left without a model
new_model_unbinding(s, m, relax_type, perm) ==
    LET s1 == clear_attr_cache(unregister_proxy_in_model(s))
    IN IF /\ s.model # None
          /\ ~relax_type
          /\ ClassOf(m) # ClassOf(s.model)
          /\ ~IsInstanceOfClass(m, ClassOf(s.model))
       THEN Raise(s1, "TypeError")
       ELSE IF m = None
       THEN [s1 EXCEPT !.model = m, !.attrs = [a \in Attrs |-> NoWidget]]
       ELSE initialize_widgets(
                Note([s1 EXCEPT !.model = m], "initialize", "-", "-"),
                Items(s1, perm))

\* new_model that leaves the proxy registered with the outgoing model
new_model_still_registered(s, m, relax_type, perm) ==
    LET s1 == clear_attr_cache(s)
    IN IF /\ s.model # None
          /\ ~relax_type
          /\ ClassOf(m) # ClassOf(s.model)
          /\ ~IsInstanceOfClass(m, ClassOf(s.model))
       THEN Raise(s1, "TypeError")
       ELSE initialize_widgets(
                Note([s1 EXCEPT !.model = m], "initialize", "-", "-"),
                Items(s1, perm))

\* new_model without the type check
new_model_unchecked(s, m, relax_type, perm) ==
    LET s1 == clear_attr_cache(unregister_proxy_in_model(s))
    IN initialize_widgets(
           Note([s1 EXCEPT !.model = m], "initialize", "-", "-"),
           Items(s1, perm))

\* Proxy.new_model(new_model, relax_type=False)
new_model(s, m, relax_type, perm) ==
    LET s1 == clear_attr_cache(unregister_proxy_in_model(s))
    IN IF /\ s.model # None
          /\ ~relax_type
          /\ ClassOf(m) # ClassOf(s.model)
          /\ ~IsInstanceOfClass(m, ClassOf(s.model))
       THEN Raise(s1, "TypeError")
       ELSE initialize_widgets(
                Note([s1 EXCEPT !.model = m], "initialize", "-", "-"),
                Items(s1, perm))

(* ------------------------------ actions ------------------------------- *)

\* Widget-name lists a caller passes: distinct names, at most MaxWidgets.
\* wa and wa2 are alike in everything, so the one listed first is called wa.
NameLists ==
    {l \in UNION {[1..n -> Names] : n \in 0..MaxWidgets} :
        /\ \A i, j \in 1..Len(l) : i # j => l[i] # l[j]
        /\ \A j \in 1..Len(l) : l[j] = "wa2" => \E i \in 1..j : l[i] = "wa"}

\* Values a caller passes to update; ValueUnset is "no value given".
UpdateValues == {ValueUnset, None, "i1", "s1"}

\* What a user can make a widget hold: a value of its type, or nothing usable.
EditValues(w) ==
    {v \in IntValues \cup StrValues : IsInstance(v, DataType(w))} \cup {ValueUnset}

\* The widgets that emit content-changed.
Emitters == {n \in Names : IsMixin(n)}

\* What the environment does during one operation.  fault is the external
\* call that raises during it: none, a widget's update, the model's
\* attribute setter, or the model's register_proxy_for_attribute.
\* hook is what proxy_updated does: nothing, or the override.
Env(fault, hook) == [fault |-> fault, hook |-> hook]

\* Nothing raises and proxy_updated is not overridden.
Calm == Env("none", "noop")

RunEnvs ==
    {Calm, Env("none", "reupdate"), Env("ksetattr", "noop"),
     Env("widget.update", "noop"), Env("widget.update", "reupdate")}

SetupEnvs == {Calm, Env("register", "noop"), Env("widget.update", "noop")}

\* A widget's update raises only while fewer than MaxBlock blocks are left
\* behind.
EnvsNow(envs) ==
    {e \in envs : e.fault = "widget.update" =>
                      hblock["wa"] + hblock["wb"] + hblock["wa2"] < MaxBlock}

Count(s, e) == Cardinality({i \in 1..Len(s.log) : s.log[i].ev = e})

\* The environments that can make an operation differ from its calm run r0:
\* a call that raises matters when the call is made, an override of
\* proxy_updated when the hook is called.
Relevant(envs, r0) ==
    {e \in envs :
        /\ e.hook # "noop" => Count(r0, "proxy_updated") > 0
        /\ e.fault # "none" =>
              \/ Count(r0, e.fault) > 0
              \/ e.hook # "noop" /\ Count(r0, "proxy_updated") > 0}

\* The value of the last event e of the operation, "-" when there is none.
LastVal(s, e) ==
    LET I == {i \in 1..Len(s.log) : s.log[i].ev = e}
    IN IF I = {} THEN "-" ELSE s.log[CHOOSE i \in I : \A j \in I : j <= i].val

\* How many widgets were connected, bound, registered for or written after
\* the operation rejected a widget.
AfterReject(s) ==
    LET R == {i \in 1..Len(s.log) : s.log[i].ev = "reject"}
    IN Cardinality({i \in 1..Len(s.log) :
           /\ \E j \in R : j < i
           /\ s.log[i].ev \in {"connect", "bind", "reject", "initialize",
                                "register", "widget.update"}})

\* The events whose order within an operation is kept: what the proxy does
\* with the model.
ModelEvents ==
    {"unregister", "initialize", "register", "kgetattr", "block_proxy",
     "ksetattr", "echo", "unblock_proxy", "proxy_updated"}

\* The operation's events with the model, in the order they happened.
Trace(s) == SelectSeq(s.log, LAMBDA e : e.ev \in ModelEvents)

\* What is kept of an operation: its name and arguments, the exception it
\* ended with, and what it did: how often it wrote the model, wrote a widget,
\* entered the content-changed handler, called the proxy_updated hook,
\* blocked or unblocked a handler and emptied the attribute cache; the value
\* the handler read from the widget; the model attributes whose value it
\* changed; what each widget holds after it; whether it replaced the model;
\* why it rejected a widget, and how much setup it did after that; the model
\* the proxy had when it started, its events with the model in order, and
\* the exception a content-changed handler ended with.
Op(name, tgt, val, flag, exc, s) ==
    [op |-> name, tgt |-> tgt, val |-> val, flag |-> flag, exc |-> exc,
     writes |-> Count(s, "ksetattr"),
     pushes |-> Count(s, "widget.update"),
     handled |-> Count(s, "handler"),
     hooks |-> Count(s, "proxy_updated"),
     blockops |-> Count(s, "handler_block") + Count(s, "handler_unblock")
                  + Count(s, "view.handler_block")
                  + Count(s, "view.handler_unblock"),
     cleared |-> Count(s, "clear_attr_cache"),
     read |-> LastVal(s, "read"),
     changed |-> {p \in Models \X Attrs : s.mattr[p[1]][p[2]] # mattr[p[1]][p[2]]},
     shown |-> s.content,
     swapped |-> s.model # model,
     reason |-> LastVal(s, "reject"),
     after |-> AfterReject(s),
     was |-> model,
     trace |-> Trace(s),
     hexc |-> s.hexc]

\* The state an operation leaves.
Commit(s, op) ==
    /\ model' = s.model
    /\ modelAttributes' = s.attrs
    /\ connected' = s.conn
    /\ hblock' = s.hblock
    /\ vblock' = s.vblock
    /\ mattr' = s.mattr
    /\ registered' = s.reg
    /\ blocked' = s.mblk
    /\ last' = op

Init ==
    /\ phase = "fresh"
    /\ model = None
    /\ modelAttributes = [a \in Attrs |-> NoWidget]
    /\ connected = {}
    /\ hblock = [w \in Tracked |-> 0]
    /\ vblock = [w \in Tracked |-> 0]
    /\ mattr = InitialAttrs
    /\ registered = [m \in Models |-> {}]
    /\ blocked = [m \in Models |-> FALSE]
    /\ last = [op |-> "none", tgt |-> "-", val |-> "-", flag |-> FALSE,
               exc |-> "none", writes |-> 0, pushes |-> 0, handled |-> 0,
               hooks |-> 0, blockops |-> 0, cleared |-> 0, read |-> "-",
               changed |-> {}, shown |-> [w \in Tracked |-> Prior],
               swapped |-> FALSE, reason |-> "-", after |-> 0,
               was |-> None, trace |-> <<>>, hexc |-> "none"]

\* Proxy(view, model, widgets)
Construct ==
    /\ phase = "fresh"
    /\ \E names \in NameLists, m \in Models \cup {None}, perm \in Orders :
      \E r0 \in {proxy_init(Cur(Calm), m, names, perm)} :
      \E env \in Relevant(EnvsNow(SetupEnvs), r0) :
        \E r \in {IF env = Calm THEN r0 ELSE proxy_init(Cur(env), m, names, perm)} :
          /\ phase' = IF Ok(r) THEN "ready" ELSE "failed"
          /\ \E o \in {Op("init", m, "-", FALSE, r.exc, r)} : Commit(r, o)

\* proxy.update(attribute, value, block), called by the application
CallUpdate ==
    /\ phase = "ready"
    /\ \E attribute \in Attrs, value \in UpdateValues, block \in BOOLEAN :
      \E r0 \in {update(Cur(Calm), attribute, value, block)} :
      \E env \in Relevant(EnvsNow(RunEnvs), r0) :
        \E r \in {IF env = Calm THEN r0
                  ELSE update(Cur(env), attribute, value, block)} :
          \E o \in {Op("update", attribute, value, block, r.exc, r)} : Commit(r, o)
    /\ UNCHANGED phase

\* proxy.new_model(m, relax_type), called by the application
CallNewModel ==
    /\ phase = "ready"
    /\ \E m \in Models \cup {None}, relax_type \in BOOLEAN, perm \in Orders :
      \E r0 \in {new_model(Cur(Calm), m, relax_type, perm)} :
      \E env \in Relevant(EnvsNow(SetupEnvs), r0) :
        \E r \in {IF env = Calm THEN r0
                  ELSE new_model(Cur(env), m, relax_type, perm)} :
          \E o \in {Op("new_model", m, "-", relax_type, r.exc, r)} : Commit(r, o)
    /\ UNCHANGED phase

\* The widget a user works on: its new content, and the emission
user_edit(s, w, v) ==
    content_changed(
        Note(IF w \in Tracked THEN [s EXCEPT !.content[w] = v] ELSE s, "emit", w, v),
        w)

\* The user changes what widget w holds and w emits content-changed.
UserEdit ==
    /\ phase # "fresh"
    /\ \E w \in Emitters :
        \E v \in EditValues(w) :
          \E r0 \in {user_edit(Cur(Calm), w, v)} :
          \E env \in Relevant(EnvsNow(RunEnvs), r0) :
          \E r \in {IF env = Calm THEN r0 ELSE user_edit(Cur(env), w, v)} :
            \E o \in {Op("edit", w, v, FALSE, r.hexc, r)} : Commit(r, o)
    /\ UNCHANGED phase

Next == Construct \/ CallUpdate \/ CallNewModel \/ UserEdit

Spec == Init /\ [][Next]_vars

(* ------------------------------- claims ------------------------------- *)

\* The attributes bound in the proxy
Bound == {a \in Attrs : modelAttributes[a] # NoWidget}

\* The widget a user worked on was handled by the proxy with a model attached,
\* and the handler returned.
Handled ==
    /\ last.op = "edit"
    /\ last.handled > 0
    /\ last.exc = "none"
    /\ model # None

\* C1, as amended: after the handler returns, when the value the widget
\* returned from read() or validate() is not the unset value the model's
\* attribute equals that value and no other attribute of any model has
\* changed; when it is the unset value no attribute has changed.
C1_HandlerWritesReadValue ==
    Handled =>
        LET a == ModelAttribute(last.tgt)
        IN IF last.read = ValueUnset
           THEN last.changed = {}
           ELSE /\ mattr[model][a] = last.read
                /\ last.changed \subseteq {<<model, a>>}

\* C1 as stated: after the handler returns the model's attribute equals the
\* value the widget returned, whatever it is, and no other attribute changed.
C1_Original ==
    Handled =>
        LET a == ModelAttribute(last.tgt)
        IN /\ mattr[model][a] = last.read
           /\ last.changed \subseteq {<<model, a>>}

\* C1: a user's edit was handled and its value written to the model.
C1_Witness ==
    /\ Handled
    /\ last.read \in IntValues \cup StrValues
    /\ last.changed = {<<model, ModelAttribute(last.tgt)>>}

\* C2: update(attribute, value, block=True) writes the model zero times,
\* enters the content-changed handler zero times and calls proxy_updated zero
\* times; a handler or hook that calls it for its own attribute is therefore
\* entered once per emission, writes once and calls the hook once.
C2_BlockedUpdateWritesNothing ==
    /\ (last.op = "update" /\ last.flag) =>
           last.writes = 0 /\ last.handled = 0 /\ last.hooks = 0
    /\ last.op \in {"update", "edit"} =>
           last.handled <= 1 /\ last.writes <= 1 /\ last.hooks <= 1

\* C2: update(block=True) wrote a connected widget, blocking and unblocking
\* its handler around the write.
C2_Witness ==
    /\ last.op = "update"
    /\ last.flag
    /\ last.exc = "none"
    /\ last.pushes = 1
    /\ last.blockops = 4

\* C3 as stated: no state after an operation has a widget's handler, the
\* view's handler for a widget or the proxy in a model left blocked.
C3_NothingLeftBlocked ==
    /\ \A w \in Tracked : hblock[w] = 0 /\ vblock[w] = 0
    /\ \A m \in Models : ~blocked[m]

\* An explicit value that is neither unset nor None and is no instance of the
\* data type of the widget bound to the attribute was passed to update.
Mismatch ==
    /\ last.op = "update"
    /\ last.tgt \in Bound
    /\ last.val \notin {ValueUnset, None}
    /\ TypeOf(last.val) # DataType(modelAttributes[last.tgt])

\* C4: update with a mismatching value raises TypeError, calls no
\* widget.update, blocks and unblocks no handler, and leaves every widget's
\* content as it was.
C4_MismatchLeavesWidgetUntouched ==
    Mismatch =>
        /\ last.exc = "TypeError"
        /\ last.pushes = 0
        /\ last.blockops = 0
        /\ \A w \in Tracked : last.shown[w] = Prior

\* C4: update was called with a mismatching value, with block=True.
C4_Witness == Mismatch /\ last.flag /\ last.exc = "TypeError"

\* C5 as stated: a successful new_model that replaces the model has emptied
\* the attribute cache and written every bound widget, with the new model's
\* value of its attribute; no bound widget is left as it was.
C5_WidgetsShowNewModel ==
    (last.op = "new_model" /\ last.exc = "none" /\ last.swapped) =>
        /\ last.cleared = 1
        /\ \A a \in Bound :
              /\ last.shown[modelAttributes[a]] # Prior
              /\ model # None =>
                     last.shown[modelAttributes[a]] = mattr[model][a]

\* C6: construction with model=None calls widget.update on no widget: every
\* widget holds what it held.
C6_NoModelNoWidgetUpdate ==
    (last.op = "init" /\ last.tgt = None) =>
        /\ last.pushes = 0
        /\ \A w \in Tracked : last.shown[w] = Prior

\* C6: a proxy with both attributes bound was constructed without a model.
C6_Witness ==
    /\ last.op = "init"
    /\ last.tgt = None
    /\ phase = "ready"
    /\ Bound = Attrs

\* C7: an attribute is bound to one widget, which has that model attribute;
\* when a second widget with the model attribute of an earlier one is set
\* up, construction fails with the duplicate-binding error (a KeyError), the
\* attribute stays bound to the first widget, and no widget is initialized
\* and nothing registered.
C7_DuplicateBindingRejected ==
    /\ \A a \in Bound : ModelAttribute(modelAttributes[a]) = a
    /\ "wa2" \in connected =>
           phase = "failed" /\ modelAttributes["a"] = "wa"
    /\ last.reason = "duplicate" =>
           /\ last.op = "init"
           /\ last.exc = "KeyError"
           /\ last.pushes = 0
           /\ last.after = 0
           /\ modelAttributes["a"] = "wa"
           /\ \A m \in Models : registered[m] = {}

\* C7: construction has just rejected a second widget for attribute a.
C7_Witness ==
    /\ last.op = "init"
    /\ last.reason = "duplicate"
    /\ modelAttributes["a"] = "wa"
    /\ "wa2" \in connected

\* C8: when setup comes to a name the view does not have, construction
\* raises AttributeError there: nothing is set up after it, no widget is
\* initialized or written, and the proxy is registered with no model.
C8_MissingNameStopsSetup ==
    last.reason = "not in view" =>
        /\ last.op = "init"
        /\ last.exc = "AttributeError"
        /\ phase = "failed"
        /\ last.after = 0
        /\ last.pushes = 0
        /\ \A m \in Models : registered[m] = {}

\* C8: construction failed at a missing name after setting up a widget.
C8_Witness ==
    /\ last.reason = "not in view"
    /\ last.exc = "AttributeError"
    /\ connected # {}

\* C9, as amended: a widget that is no kiwi widget, has no data type or has
\* no model attribute is rejected with ProxyError, and construction raises
\* ProxyError for nothing else; a name missing on the view is rejected with
\* AttributeError and a duplicate binding with KeyError; update and new_model
\* never raise ProxyError.
C9_SetupErrorTypes ==
    /\ last.reason \in {"not a kiwi widget", "no data type", "no model attribute"}
           <=> (last.op = "init" /\ last.exc = "ProxyError")
    /\ last.reason = "not in view" => last.exc = "AttributeError"
    /\ last.reason = "duplicate" => last.exc = "KeyError"
    /\ last.exc # "ProxyError" \/ last.op = "init"

\* C9 as stated: a missing name, a widget without a data type, a widget
\* without a model attribute and a duplicate binding all raise ProxyError.
C9_Original ==
    last.reason \in {"not in view", "no data type", "no model attribute",
                     "duplicate"}
        => last.exc = "ProxyError"

\* C9: construction rejected a widget without a model attribute.
C9_Witness ==
    /\ last.op = "init"
    /\ last.reason = "no model attribute"
    /\ last.exc = "ProxyError"

\* C10, as amended: on a constructed proxy no operation changes the
\* attribute-to-widget map, and the model reference changes only in a
\* new_model call, which may be one that ends with an exception raised
\* while the widgets are initialized from the new model.
C10_ModelAndMapFrame ==
    [][phase = "ready" =>
          /\ modelAttributes' = modelAttributes
          /\ model' # model => last'.op = "new_model"]_vars

\* C10 as stated: the map never changes and the model reference changes
\* only in a successful new_model call.
C10_Original ==
    [][phase = "ready" =>
          /\ modelAttributes' = modelAttributes
          /\ model' # model =>
                 (last'.op = "new_model" /\ last'.exc = "none")]_vars

\* C10: a new_model call replaced the model and then ended with an exception.
C10_Witness ==
    /\ last.op = "new_model"
    /\ last.swapped
    /\ last.exc # "none"

\* How often the last operation did e with the model
Times(e) ==
    Cardinality({i \in 1..Len(last.trace) : last.trace[i].ev = e})

\* C11: when a connected widget emits content-changed while the proxy has
\* no model, the handler reads and validates nothing, blocks and unblocks
\* nothing, writes no attribute, touches no widget, calls no hook and does
\* not raise.
C11_NoModelHandlerNoOp ==
    (last.op = "edit" /\ last.handled > 0 /\ model = None) =>
        /\ last.read = "-"
        /\ last.trace = <<>>
        /\ last.writes = 0
        /\ last.changed = {}
        /\ last.hooks = 0
        /\ last.pushes = 0
        /\ last.blockops = 0
        /\ last.exc = "none"

\* C11: the handler was entered for a bound widget of a proxy without model.
C11_Witness ==
    /\ last.op = "edit"
    /\ last.handled = 1
    /\ model = None
    /\ phase = "ready"
    /\ last.val \in IntValues \cup StrValues

\* C12: when the handler runs with a model attached and the value read or
\* validated is the unset value, it does not raise, no attribute changes, the
\* model is not written, the proxy is neither blocked nor unblocked in the
\* model, and the hook is not called.
C12_UnsetShortCircuits ==
    (last.op = "edit" /\ last.handled > 0 /\ model # None
        /\ last.read = ValueUnset) =>
        /\ last.exc = "none"
        /\ last.changed = {}
        /\ last.writes = 0
        /\ Times("block_proxy") = 0
        /\ Times("unblock_proxy") = 0
        /\ last.hooks = 0

\* C12: the validating widget was given a value its validator rejects, with
\* a model attached that supports blocking.
C12_Witness ==
    /\ last.op = "edit"
    /\ last.handled = 1
    /\ HasProtocol(model)
    /\ last.val = "s2"
    /\ last.read = ValueUnset

\* The handler of the last operation read a value that is not unset, with a
\* model attached: a widget-to-model propagation.
Propagation ==
    /\ last.op \in {"edit", "update"}
    /\ last.handled > 0
    /\ model # None
    /\ last.read \notin {"-", ValueUnset}

\* The propagation's events with the model
PropagationEvents ==
    SelectSeq(last.trace,
              LAMBDA e : e.ev \in {"block_proxy", "ksetattr", "echo",
                                   "unblock_proxy", "proxy_updated"})

\* What a propagation is to do with a model, in order
PropagationOrder(m) ==
    IF HasProtocol(m)
    THEN <<"block_proxy", "ksetattr", "unblock_proxy", "proxy_updated">>
    ELSE <<"ksetattr", "proxy_updated">>

\* The propagation did all of it, in order and once, with the value read.
PropagationComplete ==
    LET E == PropagationEvents
    IN /\ [i \in 1..Len(E) |-> E[i].ev] = PropagationOrder(model)
       /\ \A i \in 1..Len(E) :
             /\ E[i].ev \in {"ksetattr", "proxy_updated"} => E[i].val = last.read
             /\ E[i].ev = "ksetattr" => mattr[model][E[i].tgt] = last.read

\* C13 as stated: every propagation of a value that is not unset blocks the
\* proxy in the model (when the model supports it), writes the attribute,
\* unblocks the proxy and calls proxy_updated with the value written, in this
\* order and each once; no echo of the write reaches the proxy.
C13_PropagationOrder == Propagation => PropagationComplete

\* Every propagation whose handler returns is complete.
PropagationCompleteUnlessRaised ==
    (Propagation /\ last.hexc = "none") => PropagationComplete

\* C14: update for an attribute no widget is bound to raises AttributeError
\* and calls no widget.update; update returns without having called
\* widget.update only when no value is given and there is no model, and then
\* it does nothing at all.
C14_UnboundAttributeRejected ==
    last.op = "update" =>
        /\ (last.val = ValueUnset /\ model = None) =>
               /\ last.exc = "none"
               /\ last.pushes = 0
               /\ last.blockops = 0
               /\ last.trace = <<>>
        /\ (last.tgt \notin Bound /\ ~(last.val = ValueUnset /\ model = None)) =>
               /\ last.exc = "AttributeError"
               /\ last.pushes = 0
               /\ last.blockops = 0
        /\ (last.exc = "none" /\ last.pushes = 0) =>
               (last.val = ValueUnset /\ model = None)

\* C14: update was called with a value for an attribute that is not bound,
\* on a proxy with a model.
C14_Witness ==
    /\ last.op = "update"
    /\ last.tgt \notin Bound
    /\ last.val # ValueUnset
    /\ model # None
    /\ last.exc = "AttributeError"

\* Where in the last operation's events with the model e happened for tgt
When(e, tgt) ==
    {i \in 1..Len(last.trace) :
        last.trace[i].ev = e /\ last.trace[i].tgt = tgt}

\* C15: a new_model call that returns has called unregister_proxy on the
\* outgoing model (when it has one) before the model reference is replaced,
\* and has registered the proxy with the incoming model (when it can) for
\* every bound attribute before reading that attribute from it; afterwards
\* the proxy is registered with the new model for exactly the bound
\* attributes, and with the outgoing model, when it is another one, for none.
C15_RegistrationMoves ==
    (last.op = "new_model" /\ last.exc = "none") =>
        /\ Cardinality(When("initialize", "-")) = 1
        /\ HasProtocol(last.was) =>
               /\ When("unregister", last.was) # {}
               /\ \A i \in When("unregister", last.was) :
                     \A j \in When("initialize", "-") : i < j
        /\ HasProtocol(model) =>
               /\ registered[model] = Bound
               /\ \A a \in Bound :
                     /\ When("register", a) # {}
                     /\ When("kgetattr", a) # {}
                     /\ \A k \in When("kgetattr", a) :
                           \E i \in When("register", a) : i < k
        /\ (last.was \in Models /\ last.was # model) => registered[last.was] = {}
        /\ model = last.tgt

\* C15: new_model returned on a proxy with both attributes bound whose
\* outgoing and incoming models both support registration.
C15_Witness ==
    /\ last.op = "new_model"
    /\ last.exc = "none"
    /\ HasProtocol(last.was)
    /\ HasProtocol(model)
    /\ Bound = Attrs

\* The last operation, a new_model without relax_type on a proxy that had a
\* model, was given a model (or None) whose type is neither the type of that
\* model nor a subclass of it.
WrongType ==
    /\ last.op = "new_model"
    /\ last.was # None
    /\ ~last.flag
    /\ ClassOf(last.tgt) # ClassOf(last.was)
    /\ ~(ClassOf(last.tgt) = "Derived" /\ ClassOf(last.was) = "Base")

\* C16: new_model with a model of the wrong type raises TypeError, leaves the
\* model reference as it was and initializes no widget; every other new_model
\* (relax_type given, no model before, or a fitting type) replaces the model
\* reference and goes on to initialize the widgets.
C16_TypeCheckOnReplace ==
    last.op = "new_model" =>
        IF WrongType
        THEN /\ last.exc = "TypeError"
             /\ model = last.was
             /\ ~last.swapped
             /\ last.pushes = 0
             /\ When("initialize", "-") = {}
        ELSE /\ model = last.tgt
             /\ Cardinality(When("initialize", "-")) = 1

\* C16: a Base instance was refused as replacement of a Derived instance.
C16_Witness ==
    /\ WrongType
    /\ last.tgt \in Models
    /\ last.exc = "TypeError"
    /\ Bound # {}

\* The last operation was an update of a bound attribute with None.
UpdateWithNone ==
    /\ last.op = "update"
    /\ last.tgt \in Bound
    /\ last.val = None

\* The last operation was an update of a bound attribute without a value,
\* on a proxy whose model lacks the attribute.
UpdateResolvingUnset ==
    /\ last.op = "update"
    /\ last.tgt \in Bound
    /\ last.val = ValueUnset
    /\ model # None
    /\ mattr[model][last.tgt] = ValueUnset

\* C17: update with None, and update whose value resolves to the unset
\* value, never raise TypeError and call widget.update, with None and with
\* the unset value; a value of another type than the widget's data type
\* raises TypeError before any widget.update.
C17_NoneAndUnsetExempt ==
    /\ UpdateWithNone =>
           /\ last.exc # "TypeError"
           /\ last.pushes >= 1
           /\ last.exc = "none" => last.shown[modelAttributes[last.tgt]] = None
    /\ UpdateResolvingUnset =>
           /\ last.exc # "TypeError"
           /\ last.pushes >= 1
           /\ last.exc = "none" =>
                  last.shown[modelAttributes[last.tgt]] = ValueUnset
    /\ Mismatch => (last.exc = "TypeError" /\ last.pushes = 0)

\* C17: update without a value pushed the unset value of a model that lacks
\* the attribute into the widget.
C17_Witness ==
    /\ UpdateResolvingUnset
    /\ last.exc = "none"
    /\ last.shown[modelAttributes[last.tgt]] = ValueUnset

\* C18: construction and new_model never write the model: while the widgets
\* are initialized the content-changed handler is not entered, ksetattr and
\* proxy_updated are not called and no attribute of any model changes; every
\* push is made between a block and an unblock of the widget's handler and of
\* the view's.
C18_InitializationWritesNothing ==
    last.op \in {"init", "new_model"} =>
        /\ last.handled = 0
        /\ last.writes = 0
        /\ last.hooks = 0
        /\ last.changed = {}
        /\ last.exc = "none" => last.blockops = 4 * last.pushes

\* C18: a proxy was constructed with a model and pushed the model's values
\* into two widgets.
C18_Witness ==
    /\ last.op = "init"
    /\ last.exc = "none"
    /\ model # None
    /\ last.pushes = 2
    /\ last.blockops = 8

\* C19 as stated: after a new_model call refused for the model's type, on a
\* proxy with bound widgets whose model supports registration, the proxy still
\* references that model and is still registered with it for the bound
\* attributes, and the attribute cache has not been emptied.
C19_RejectionKeepsRegistration ==
    (WrongType /\ HasProtocol(last.was) /\ Bound # {}
        /\ last.exc = "TypeError") =>
        /\ model = last.was
        /\ registered[model] = Bound
        /\ last.cleared = 0

\* The widgets bound in the proxy
BoundWidgets == {modelAttributes[a] : a \in Bound}

\* C20 as stated: a widget carries the proxy's content-changed handler only
\* when it is bound, so that a content-changed of a widget rejected at setup
\* enters no handler and writes no model.
C20_RejectedWidgetHasNoListener ==
    /\ connected \subseteq BoundWidgets
    /\ (last.op = "edit" /\ last.tgt \notin BoundWidgets) =>
           /\ last.handled = 0
           /\ last.writes = 0
           /\ last.changed = {}

\* A widget that carries the handler without being bound is one rejected as
\* a duplicate: its attribute is bound to another widget.
OnlyDuplicatesKeepListener ==
    \A w \in connected \ BoundWidgets :
        /\ ModelAttribute(w) \in Bound
        /\ modelAttributes[ModelAttribute(w)] # w
        /\ phase = "failed"

====
